---------------------------- MODULE Spec2Model ----------------------------
(***************************************************************************)
(* Model of the policy evaluator: the process-wide POLICY_MAPPING registry *)
(* behind its RwLock, the host callback dispatcher, the log bridge         *)
(* (Policy::log) and the PolicyEvaluator facade (construction, validate,   *)
(* validate_settings, protocol_version), driven by caller threads and by   *)
(* guest code that calls back into the host while an export runs.          *)
(***************************************************************************)
EXTENDS Integers, Sequences, FiniteSets, TLC

(* ----------------------------- bounds ---------------------------------- *)
\* number of sandbox instances (handles) the process creates
MaxHandles == 2

Threads == {"t1", "t2"}
Handles == 1..MaxHandles
\* every u64 a callback can carry, MaxHandles + 1 standing for the next id
PolicyIds == 1..(MaxHandles + 1)

(* ----------------------------- values ---------------------------------- *)
\* Option<T>: None is the empty sequence, Some(x) the one-element sequence
None == << >>
Some(x) == << x >>

NoThread == "none"
NoSpan == [policy_id |-> 0]
NoPolicy ==
  [wapc_policy_id |-> 0, settings |-> << >>, span |-> NoSpan, request_uid |-> << >>]

\* the `uid` member of the admission request: absent, a JSON number, a string
JAbsent == [type |-> "absent", str |-> ""]
JNumber == [type |-> "number", str |-> ""]
JString(s) == [type |-> "string", str |-> s]
\* the callers of the evaluator with handle h tag their requests with uids
\* of their own: "u<h>-1", "u<h>-2"
UidsPerHandle == 1
UidString(h, i) == "u" \o ToString(h) \o "-" \o ToString(i)
UidStrings(h) == {UidString(h, i) : i \in 1..UidsPerHandle}
UidFields(h) == {JAbsent, JNumber} \cup {JString(s) : s \in UidStrings(h)}

\* the admission requests given to the evaluator with handle h: the uid
\* member and whether there is an `object` member
Requests(h) == [uid : UidFields(h), object : BOOLEAN]

\* Option<Map<String, Value>> given at load time
\* (maps are sets of key/value pairs)
EmptyMap == {}
SomeMap == {<< "k", 1 >>}
SettingsValues == {None, Some(SomeMap)}

\* serde_json::to_string of a settings map, when it is Ok
to_string(map) == IF map = {} THEN "{}" ELSE "{\"k\":1}"

\* variant: the Option itself is serialized, None giving "null"
settings_str_null(settings) ==
  IF settings = None THEN "null" ELSE to_string(settings[1])

\* validate_settings: the text sent for the settings, "{}" for None
settings_str(settings) ==
  IF settings = None THEN "{}" ELSE to_string(settings[1])

\* Option::unwrap_or_default on the settings
unwrap_or_default(settings) == IF settings = None THEN {} ELSE settings[1]

\* guest log payloads: bytes that are JSON or not, with an optional level
\* member and an optional message member
LogPayload(j, l, m) == [json |-> j, level |-> l, message |-> m]
LogPayloads ==
  { LogPayload(TRUE, Some("info"), Some("hi")),
    LogPayload(TRUE, Some("WARNING"), None),
    LogPayload(TRUE, Some("bogus"), Some("hi")),
    LogPayload(TRUE, None, Some("hi")),
    LogPayload(FALSE, None, None) }
EmptyPayload == LogPayload(FALSE, None, None)

Bindings == {"kubewarden", "kubernetes", "wapc"}
Namespaces == {"tracing", "ingresses", "namespaces", "services", "pods"}
Operations == {"log", "get"}
AllRoutes == Bindings \X Namespaces \X Operations

\* the routes and payloads the guests of the concurrent model use
Routes ==
  { << "kubewarden", "tracing", "log" >>, << "kubernetes", "services", "get" >>,
    << "kubernetes", "pods", "get" >> }
Payloads ==
  { LogPayload(TRUE, Some("info"), Some("hi")),
    LogPayload(TRUE, Some("bogus"), Some("hi")) }
\* (only the log route reads its payload)
PayloadsOf(route, payloads) ==
  IF route = << "kubewarden", "tracing", "log" >> THEN payloads ELSE {EmptyPayload}

VARIABLES
  POLICY_MAPPING,  \* the registry: handle -> Policy, NoPolicy when absent
  rwlock,          \* the RwLock around it: its writer and its readers
  nextId,          \* the id the next sandbox instance gets
  evaluator,       \* the PolicyEvaluator objects, by the id of their host
  pc,              \* where each caller thread is
  call,            \* the call each thread is in
  cb,              \* the host callback each thread's guest is in
  out              \* what the last step gave back: a call's return value
                   \* to its caller, or a callback's result to the guest

vars == << POLICY_MAPPING, rwlock, nextId, evaluator, pc, call, cb, out >>

(* ------------------------- ValidateRequest ----------------------------- *)
\* variant: the uid member is never read
uid_empty(request) == ""

\* ValidateRequest::uid
uid(request) ==
  IF request.uid.type = "string" THEN request.uid.str ELSE ""

\* variant: the `object` member is not required
get_object_always(request) == TRUE

\* request.0.get("object").is_some()
get_object(request) == request.object

(* ------------------------------ Policy --------------------------------- *)
\* Policy::from_contents, when it is Ok: the context built at load time
Policy_from_contents(wapc_policy_id, span, settings) ==
  [wapc_policy_id |-> wapc_policy_id, settings |-> settings, span |-> span,
   request_uid |-> None]

\* variant: the context is re-registered without the request's uid
with_request_uid_kept(policy, id) == policy

\* variant: Policy { request_uid: Some(uid), ..Default::default() }, which
\* drops the settings of the evaluator's policy
with_request_uid_default(policy, id) ==
  [policy EXCEPT !.request_uid = Some(id), !.settings = None]

\* Policy { request_uid: Some(uid.to_string()), ..self.policy.clone() }
with_request_uid(policy, id) == [policy EXCEPT !.request_uid = Some(id)]

(* --------------------------- the registry ------------------------------ *)
\* variant: an entry().or_insert() that keeps the context already there
insert_if_absent(mapping, k, v) ==
  IF mapping[k] = NoPolicy THEN [mapping EXCEPT ![k] = v] ELSE mapping

\* HashMap::insert on POLICY_MAPPING
insert(mapping, k, v) == [mapping EXCEPT ![k] = v]

\* HashMap::get on POLICY_MAPPING: None for a key that was never inserted
get(mapping, k) ==
  IF k \in DOMAIN mapping /\ mapping[k] # NoPolicy THEN Some(mapping[k]) ELSE None

WriteFree == rwlock.writer = NoThread /\ rwlock.readers = {}
ReadFree == rwlock.writer = NoThread

(* ----------------------------- log bridge ------------------------------ *)
\* str::to_uppercase on the level strings of the payloads
to_uppercase(s) ==
  CASE s = "info" -> "INFO"
    [] s = "bogus" -> "BOGUS"
    [] OTHER -> s

\* PolicyLogEntryLevel::deserialize followed by the tracing level that
\* Policy::log maps the variant to; None is the decoding error
deserialize_level(s) ==
  CASE to_uppercase(s) = "TRACE" -> Some("TRACE")
    [] to_uppercase(s) = "DEBUG" -> Some("DEBUG")
    [] to_uppercase(s) = "INFO" -> Some("INFO")
    [] to_uppercase(s) = "WARNING" -> Some("WARN")
    [] to_uppercase(s) = "ERROR" -> Some("ERROR")
    [] OTHER -> None

NoEvent == [emitted |-> FALSE, policy_id |-> 0, request_uid |-> None,
            level |-> "", message |-> ""]

\* variant: the event is emitted without the context's request_uid
log_untagged(policy, contents) ==
  IF ~contents.json \/ contents.level = None
       \/ deserialize_level(contents.level[1]) = None
  THEN [ok |-> FALSE, event |-> NoEvent]
  ELSE [ok |-> TRUE,
        event |-> [emitted |-> TRUE,
                   policy_id |-> policy.span.policy_id,
                   request_uid |-> None,
                   level |-> deserialize_level(contents.level[1])[1],
                   message |-> IF contents.message = None THEN ""
                               ELSE contents.message[1]]]

\* Policy::log: Err for bytes that do not decode as a PolicyLogEntry,
\* otherwise the event emitted under the policy's span, tagged with the
\* context's request_uid when it has one.  (`data` is a flattened
\* Option<Map>, which serde always decodes to Some, so its unwrap() does
\* not panic.)
log(policy, contents) ==
  IF ~contents.json \/ contents.level = None
       \/ deserialize_level(contents.level[1]) = None
  THEN [ok |-> FALSE, event |-> NoEvent]
  ELSE [ok |-> TRUE,
        event |-> [emitted |-> TRUE,
                   policy_id |-> policy.span.policy_id,
                   request_uid |-> policy.request_uid,
                   level |-> deserialize_level(contents.level[1])[1],
                   message |-> IF contents.message = None THEN ""
                               ELSE contents.message[1]]]

(* ---------------------------- dispatcher ------------------------------- *)
\* ClusterContext::get(): the provider's pre-serialized snapshots
cluster_context ==
  [ingresses |-> "INGRESSES", namespaces |-> "NAMESPACES", services |-> "SERVICES"]

\* what one callback gives back: Ok(bytes), Err(text) or a panic of the
\* calling thread, with the host-side error diagnostic (error!) and the
\* event the log bridge emitted, if any
CbOk(bytes, diag, event) ==
  [kind |-> "ok", bytes |-> bytes, err |-> << >>, diag |-> diag, event |-> event]
CbErr(what, name) ==
  [kind |-> "err", bytes |-> "", err |-> << what, name >>,
   diag |-> << what, name >>, event |-> NoEvent]
CbPanic ==
  [kind |-> "panic", bytes |-> "", err |-> << >>, diag |-> << >>, event |-> NoEvent]
CbPending ==
  [kind |-> "pending", bytes |-> "", err |-> << >>, diag |-> << >>, event |-> NoEvent]

\* variant: a missing context is answered with an Err, as an unknown route is
host_callback_missing_is_err(mapping, policy_id, binding, namespace, operation, payload) ==
  IF binding = "kubewarden" THEN
    IF namespace = "tracing" THEN
      IF operation = "log" THEN
        IF get(mapping, policy_id) = None THEN CbErr("unknown policy", "")
        ELSE LET r == log(get(mapping, policy_id)[1], payload)
             IN  CbOk("", IF r.ok THEN << >> ELSE << "Cannot log event" >>, r.event)
      ELSE CbErr("unknown operation", operation)
    ELSE CbErr("unknown namespace", namespace)
  ELSE IF binding = "kubernetes" THEN
    CASE namespace = "ingresses" -> CbOk(cluster_context.ingresses, << >>, NoEvent)
      [] namespace = "namespaces" -> CbOk(cluster_context.namespaces, << >>, NoEvent)
      [] namespace = "services" -> CbOk(cluster_context.services, << >>, NoEvent)
      [] OTHER -> CbErr("unknown namespace", namespace)
  ELSE CbErr("unknown binding", binding)

\* variant: every operation of (kubewarden, tracing) is taken as log
host_callback_any_operation(mapping, policy_id, binding, namespace, operation, payload) ==
  IF binding = "kubewarden" THEN
    IF namespace = "tracing" THEN
      IF get(mapping, policy_id) = None THEN CbPanic
      ELSE LET r == log(get(mapping, policy_id)[1], payload)
           IN  CbOk("", IF r.ok THEN << >> ELSE << "Cannot log event" >>, r.event)
    ELSE CbErr("unknown namespace", namespace)
  ELSE IF binding = "kubernetes" THEN
    CASE namespace = "ingresses" -> CbOk(cluster_context.ingresses, << >>, NoEvent)
      [] namespace = "namespaces" -> CbOk(cluster_context.namespaces, << >>, NoEvent)
      [] namespace = "services" -> CbOk(cluster_context.services, << >>, NoEvent)
      [] OTHER -> CbErr("unknown namespace", namespace)
  ELSE CbErr("unknown binding", binding)

\* variant: the Err of Policy::log is returned to the guest
host_callback_propagates(mapping, policy_id, binding, namespace, operation, payload) ==
  IF binding = "kubewarden" THEN
    IF namespace = "tracing" THEN
      IF operation = "log" THEN
        IF get(mapping, policy_id) = None THEN CbPanic
        ELSE LET r == log(get(mapping, policy_id)[1], payload)
             IN  IF r.ok THEN CbOk("", << >>, r.event)
                 ELSE CbErr("Cannot log event", "")
      ELSE CbErr("unknown operation", operation)
    ELSE CbErr("unknown namespace", namespace)
  ELSE IF binding = "kubernetes" THEN
    CASE namespace = "ingresses" -> CbOk(cluster_context.ingresses, << >>, NoEvent)
      [] namespace = "namespaces" -> CbOk(cluster_context.namespaces, << >>, NoEvent)
      [] namespace = "services" -> CbOk(cluster_context.services, << >>, NoEvent)
      [] OTHER -> CbErr("unknown namespace", namespace)
  ELSE CbErr("unknown binding", binding)

\* variant: the log route looks the context up under a fixed key
host_callback_first(mapping, policy_id, binding, namespace, operation, payload) ==
  IF binding = "kubewarden" THEN
    IF namespace = "tracing" THEN
      IF operation = "log" THEN
        IF get(mapping, 1) = None THEN CbPanic
        ELSE LET r == log(get(mapping, 1)[1], payload)
             IN  CbOk("", IF r.ok THEN << >> ELSE << "Cannot log event" >>, r.event)
      ELSE CbErr("unknown operation", operation)
    ELSE CbErr("unknown namespace", namespace)
  ELSE IF binding = "kubernetes" THEN
    CASE namespace = "ingresses" -> CbOk(cluster_context.ingresses, << >>, NoEvent)
      [] namespace = "namespaces" -> CbOk(cluster_context.namespaces, << >>, NoEvent)
      [] namespace = "services" -> CbOk(cluster_context.services, << >>, NoEvent)
      [] OTHER -> CbErr("unknown namespace", namespace)
  ELSE CbErr("unknown binding", binding)

\* host_callback, as a function of the registry it reads
host_callback(mapping, policy_id, binding, namespace, operation, payload) ==
  IF binding = "kubewarden" THEN
    IF namespace = "tracing" THEN
      IF operation = "log" THEN
        IF get(mapping, policy_id) = None THEN CbPanic
        ELSE LET r == log(get(mapping, policy_id)[1], payload)
             IN  CbOk("", IF r.ok THEN << >> ELSE << "Cannot log event" >>, r.event)
      ELSE CbErr("unknown operation", operation)
    ELSE CbErr("unknown namespace", namespace)
  ELSE IF binding = "kubernetes" THEN
    CASE namespace = "ingresses" -> CbOk(cluster_context.ingresses, << >>, NoEvent)
      [] namespace = "namespaces" -> CbOk(cluster_context.namespaces, << >>, NoEvent)
      [] namespace = "services" -> CbOk(cluster_context.services, << >>, NoEvent)
      [] OTHER -> CbErr("unknown namespace", namespace)
  ELSE CbErr("unknown binding", binding)

\* the route that takes the registry's read lock
IsLogRoute(binding, namespace, operation) ==
  binding = "kubewarden" /\ namespace = "tracing" /\ operation = "log"


(* --------------------------- return values ----------------------------- *)
NoResult ==
  [kind |-> "none", uid |-> "", allowed |-> FALSE, code |-> 0,
   valid |-> FALSE, message |-> None, h |-> 0]

\* a ValidationResponse: correlation id, decision, status code and message
ValidationResponse(id, allowed, code, message) ==
  [kind |-> "validation", uid |-> id, allowed |-> allowed, code |-> code,
   valid |-> FALSE, message |-> message, h |-> 0]

BAD_REQUEST == 400
INTERNAL_SERVER_ERROR == 500

\* ValidationResponse::reject
reject(id, message, code) == ValidationResponse(id, FALSE, code, Some(message))

\* ValidationResponse::reject_internal_server_error
reject_internal_server_error(id, message) ==
  ValidationResponse(id, FALSE, INTERNAL_SERVER_ERROR, Some(message))

\* ValidationResponse::from_policy_validation_response, when it is Ok
from_policy_validation_response(id, pol_val_resp) ==
  ValidationResponse(id, pol_val_resp.flag, 0, pol_val_resp.message)

SettingsValidationResponse(valid, message) ==
  [kind |-> "settings", uid |-> "", allowed |-> FALSE, code |-> 0,
   valid |-> valid, message |-> message, h |-> 0]

\* Result<ProtocolVersion>
ProtocolVersionOk(v) ==
  [kind |-> "version", uid |-> "", allowed |-> FALSE, code |-> 0,
   valid |-> TRUE, message |-> Some(v), h |-> 0]
ProtocolVersionErr(text) ==
  [kind |-> "version", uid |-> "", allowed |-> FALSE, code |-> 0,
   valid |-> FALSE, message |-> Some(text), h |-> 0]

\* Result<PolicyEvaluator>
EvaluatorOk(h) ==
  [kind |-> "evaluator", uid |-> "", allowed |-> FALSE, code |-> 0,
   valid |-> TRUE, message |-> None, h |-> h]
EvaluatorErr ==
  [kind |-> "evaluator", uid |-> "", allowed |-> FALSE, code |-> 0,
   valid |-> FALSE, message |-> None, h |-> 0]

(* ----------------------------- the guest ------------------------------- *)
\* what wapc_host.call gives back: Err, bytes that do not parse, or bytes
\* that parse to a reply with a flag (accepted / valid) and a message
Reply(kind, flag, message) == [kind |-> kind, flag |-> flag, message |-> message]
NoReply == Reply("none", FALSE, None)
TransportError == Reply("error", FALSE, Some("guest trap"))
Garbage == Reply("garbage", FALSE, None)
Verdicts == { Reply("parsed", TRUE, None), Reply("parsed", FALSE, Some("reason")) }
ValidateReplies == {TransportError, Garbage} \cup Verdicts
SettingsReplies == {TransportError, Garbage} \cup Verdicts
VersionReplies == {TransportError, Garbage, Reply("parsed", TRUE, Some("v1"))}

NoRequest == [uid |-> JAbsent, object |-> FALSE]

\* the call a thread is in: the operation, the evaluator's handle, the
\* request (validate), the settings (construction), the payload handed to
\* the export, whether the export was invoked, whether the serialization
\* went well, the export's reply and whether the response could be built
Call(op, h, request, settings) ==
  [op |-> op, h |-> h, request |-> request, settings |-> settings,
   payload |-> None, invoked |-> FALSE, ser_ok |-> TRUE, reply |-> NoReply,
   build_ok |-> TRUE]
NoCall == Call("none", 0, NoRequest, None)

\* a callback: the route, the payload, the id the sandbox passes, the result
Callback(binding, namespace, operation, payload, policy_id, res) ==
  [binding |-> binding, namespace |-> namespace, operation |-> operation,
   payload |-> payload, policy_id |-> policy_id, res |-> res]
NoCb == Callback("", "", "", EmptyPayload, 0, CbPending)

\* how a callback ended, when it failed: Err to the guest, or Ok to the
\* guest after the log bridge refused the payload
Ended(res) ==
  CASE res.kind = "err" -> "err"
    [] res.kind = "ok" /\ res.diag # << >> -> "log_failed"
    [] OTHER -> "none"

\* the last step's output: nothing, the return of thread t's call c with
\* its result (for validate, `after` tells how the callback failed that the
\* same thread's guest was given in the step just before), or the result of
\* a callback that the guest of thread t's call c issued
NoOut == [kind |-> "none", t |-> NoThread, call |-> NoCall, cb |-> NoCb,
          result |-> NoResult, after |-> "none"]
Serviced(t, c, callback) ==
  [kind |-> "callback", t |-> t, call |-> c, cb |-> callback,
   result |-> NoResult, after |-> "none"]
Returned(t, c, result) ==
  [kind |-> "return", t |-> t, call |-> c, cb |-> NoCb, result |-> result,
   after |-> IF c.op = "validate" /\ out.kind = "callback" /\ out.t = t
             THEN Ended(out.cb.res) ELSE "none"]

(* ------------------------------- Init ---------------------------------- *)
Init ==
  /\ POLICY_MAPPING = [h \in Handles |-> NoPolicy]
  /\ rwlock = [writer |-> NoThread, readers |-> {}]
  /\ nextId = 1
  /\ evaluator = [h \in Handles |-> [state |-> "none", policy |-> NoPolicy]]
  /\ pc = [t \in Threads |-> "idle"]
  /\ call = [t \in Threads |-> NoCall]
  /\ cb = [t \in Threads |-> NoCb]
  /\ out = NoOut

\* no thread is inside a call on the evaluator with handle h
NoCallOn(h) == \A t \in Threads : call[t].h # h

\* no thread is inside validate on the evaluator with handle h
NoValidateOn(h) == \A t \in Threads : ~(call[t].h = h /\ call[t].op = "validate")

(* --------------------------- construction ------------------------------ *)
\* PolicyEvaluator::from_contents up to WapcHost::new: the sandbox instance
\* gets the next id and the dispatcher as its callback, and its start
\* functions run
from_contents(t, settings) ==
  /\ pc[t] = "idle"
  /\ nextId <= MaxHandles
  /\ nextId' = nextId + 1
  /\ pc' = [pc EXCEPT ![t] = "guest"]
  /\ call' = [call EXCEPT ![t] = [Call("new", nextId, NoRequest, settings)
                                    EXCEPT !.invoked = TRUE]]
  /\ out' = NoOut
  /\ UNCHANGED << POLICY_MAPPING, rwlock, evaluator, cb >>

\* variant: a placeholder context is registered as soon as the id is known,
\* before policy_from_contents is tried
from_contents_internal_registers_first(t, host_ok, policy_ok) ==
  /\ pc[t] = "guest"
  /\ call[t].op = "new"
  /\ IF host_ok /\ policy_ok
     THEN /\ WriteFree
          /\ rwlock' = [rwlock EXCEPT !.writer = t]
          /\ pc' = [pc EXCEPT ![t] = "insert"]
          /\ out' = NoOut
          /\ UNCHANGED << call, POLICY_MAPPING >>
     ELSE /\ pc' = [pc EXCEPT ![t] = "idle"]
          /\ call' = [call EXCEPT ![t] = NoCall]
          /\ out' = Returned(t, call[t], EvaluatorErr)
          /\ POLICY_MAPPING' =
               IF host_ok
               THEN insert(POLICY_MAPPING, call[t].h,
                           Policy_from_contents(call[t].h, NoSpan, None))
               ELSE POLICY_MAPPING
          /\ UNCHANGED rwlock
  /\ UNCHANGED << nextId, evaluator, cb >>

\* WapcHost::new returns (Ok or Err), then from_contents_internal:
\* engine_initializer, the span, policy_from_contents (Ok or Err), and
\* POLICY_MAPPING.write()
from_contents_internal(t, host_ok, policy_ok) ==
  /\ pc[t] = "guest"
  /\ call[t].op = "new"
  /\ IF host_ok /\ policy_ok
     THEN /\ WriteFree
          /\ rwlock' = [rwlock EXCEPT !.writer = t]
          /\ pc' = [pc EXCEPT ![t] = "insert"]
          /\ out' = NoOut
          /\ UNCHANGED call
     ELSE /\ pc' = [pc EXCEPT ![t] = "idle"]
          /\ call' = [call EXCEPT ![t] = NoCall]
          /\ out' = Returned(t, call[t], EvaluatorErr)
          /\ UNCHANGED rwlock
  /\ UNCHANGED << POLICY_MAPPING, nextId, evaluator, cb >>

\* from_contents_internal: .insert(wapc_policy_id, policy.clone()), the lock
\* guard dropped, Ok(policy); from_contents: Ok(PolicyEvaluator)
from_contents_insert(t) ==
  /\ pc[t] = "insert"
  /\ call[t].op = "new"
  /\ LET wapc_policy_id == call[t].h
         span == [policy_id |-> wapc_policy_id]
         policy == Policy_from_contents(wapc_policy_id, span, call[t].settings)
     IN  /\ POLICY_MAPPING' = insert(POLICY_MAPPING, wapc_policy_id, policy)
         /\ evaluator' = [evaluator EXCEPT ![wapc_policy_id] =
                            [state |-> "live", policy |-> policy]]
         /\ out' = Returned(t, call[t], EvaluatorOk(wapc_policy_id))
  /\ rwlock' = [rwlock EXCEPT !.writer = NoThread]
  /\ pc' = [pc EXCEPT ![t] = "idle"]
  /\ call' = [call EXCEPT ![t] = NoCall]
  /\ UNCHANGED << nextId, cb >>

\* variant: a Drop impl that removes the evaluator's registry entry
drop_unregisters(h) ==
  /\ evaluator[h].state = "live"
  /\ NoCallOn(h)
  /\ evaluator' = [evaluator EXCEPT ![h].state = "dropped"]
  /\ POLICY_MAPPING' = [POLICY_MAPPING EXCEPT ![h] = NoPolicy]
  /\ out' = NoOut
  /\ UNCHANGED << rwlock, nextId, pc, call, cb >>

\* a PolicyEvaluator goes out of scope: there is no Drop that unregisters
drop(h) ==
  /\ evaluator[h].state = "live"
  /\ NoCallOn(h)
  /\ evaluator' = [evaluator EXCEPT ![h].state = "dropped"]
  /\ out' = NoOut
  /\ UNCHANGED << POLICY_MAPPING, rwlock, nextId, pc, call, cb >>

(* ------------------------------ validate ------------------------------- *)
\* PolicyEvaluator::validate up to POLICY_MAPPING.write(): the uid is read
\* and the write lock taken
validate(t, h, request) ==
  /\ pc[t] = "idle"
  /\ evaluator[h].state = "live"
  /\ WriteFree
  /\ rwlock' = [rwlock EXCEPT !.writer = t]
  /\ pc' = [pc EXCEPT ![t] = "insert"]
  /\ call' = [call EXCEPT ![t] = Call("validate", h, request, None)]
  /\ out' = NoOut
  /\ UNCHANGED << POLICY_MAPPING, nextId, evaluator, cb >>

\* variant: the write guard is bound to a name and lives until validate
\* returns, the call into the guest included
validate_insert_holding(t, ser_ok) ==
  /\ pc[t] = "insert"
  /\ call[t].op = "validate"
  /\ LET self == evaluator[call[t].h]
         request == call[t].request
         policy == with_request_uid(self.policy, uid(request))
         validate_params ==
           [request |-> request, settings |-> unwrap_or_default(policy.settings)]
     IN  /\ POLICY_MAPPING' = insert(POLICY_MAPPING, self.policy.wapc_policy_id, policy)
         /\ IF ~get_object(request)
            THEN /\ out' = Returned(t, call[t],
                      reject(uid(request), "request doesn't have an 'object' value",
                             BAD_REQUEST))
                 /\ rwlock' = [rwlock EXCEPT !.writer = NoThread]
                 /\ pc' = [pc EXCEPT ![t] = "idle"]
                 /\ call' = [call EXCEPT ![t] = NoCall]
            ELSE IF ~ser_ok
            THEN /\ out' = Returned(t, [call[t] EXCEPT !.ser_ok = FALSE],
                      reject_internal_server_error(uid(request), "serde_json error"))
                 /\ rwlock' = [rwlock EXCEPT !.writer = NoThread]
                 /\ pc' = [pc EXCEPT ![t] = "idle"]
                 /\ call' = [call EXCEPT ![t] = NoCall]
            ELSE /\ pc' = [pc EXCEPT ![t] = "guest"]
                 /\ call' = [call EXCEPT ![t].invoked = TRUE,
                                         ![t].payload = Some(validate_params)]
                 /\ out' = NoOut
                 /\ UNCHANGED rwlock
  /\ UNCHANGED << nextId, evaluator, cb >>

\* variant: the context is registered after the input checks, so that an
\* early rejection leaves the registry as it was
validate_insert_checks_first(t, ser_ok) ==
  /\ pc[t] = "insert"
  /\ call[t].op = "validate"
  /\ LET self == evaluator[call[t].h]
         request == call[t].request
         policy == with_request_uid(self.policy, uid(request))
         validate_params ==
           [request |-> request, settings |-> unwrap_or_default(policy.settings)]
     IN  /\ rwlock' = [rwlock EXCEPT !.writer = NoThread]
         /\ IF ~get_object(request)
            THEN /\ out' = Returned(t, call[t],
                      reject(uid(request), "request doesn't have an 'object' value",
                             BAD_REQUEST))
                 /\ pc' = [pc EXCEPT ![t] = "idle"]
                 /\ call' = [call EXCEPT ![t] = NoCall]
                 /\ UNCHANGED POLICY_MAPPING
            ELSE IF ~ser_ok
            THEN /\ out' = Returned(t, [call[t] EXCEPT !.ser_ok = FALSE],
                      reject_internal_server_error(uid(request), "serde_json error"))
                 /\ pc' = [pc EXCEPT ![t] = "idle"]
                 /\ call' = [call EXCEPT ![t] = NoCall]
                 /\ UNCHANGED POLICY_MAPPING
            ELSE /\ POLICY_MAPPING' =
                      insert(POLICY_MAPPING, self.policy.wapc_policy_id, policy)
                 /\ pc' = [pc EXCEPT ![t] = "guest"]
                 /\ call' = [call EXCEPT ![t].invoked = TRUE,
                                         ![t].payload = Some(validate_params)]
                 /\ out' = NoOut
  /\ UNCHANGED << nextId, evaluator, cb >>

\* validate: .insert(self.policy.wapc_policy_id, policy.clone()), the lock
\* guard dropped, the `object` check, the serialization of
\* {request, settings} (Ok or Err), and wapc_host.call("validate", ..) begun
validate_insert(t, ser_ok) ==
  /\ pc[t] = "insert"
  /\ call[t].op = "validate"
  /\ LET self == evaluator[call[t].h]
         request == call[t].request
         policy == with_request_uid(self.policy, uid(request))
         validate_params ==
           [request |-> request, settings |-> unwrap_or_default(policy.settings)]
     IN  /\ POLICY_MAPPING' = insert(POLICY_MAPPING, self.policy.wapc_policy_id, policy)
         /\ rwlock' = [rwlock EXCEPT !.writer = NoThread]
         /\ IF ~get_object(request)
            THEN /\ out' = Returned(t, call[t],
                      reject(uid(request), "request doesn't have an 'object' value",
                             BAD_REQUEST))
                 /\ pc' = [pc EXCEPT ![t] = "idle"]
                 /\ call' = [call EXCEPT ![t] = NoCall]
            ELSE IF ~ser_ok
            THEN /\ out' = Returned(t, [call[t] EXCEPT !.ser_ok = FALSE],
                      reject_internal_server_error(uid(request), "serde_json error"))
                 /\ pc' = [pc EXCEPT ![t] = "idle"]
                 /\ call' = [call EXCEPT ![t] = NoCall]
            ELSE /\ pc' = [pc EXCEPT ![t] = "guest"]
                 /\ call' = [call EXCEPT ![t].invoked = TRUE,
                                         ![t].payload = Some(validate_params)]
                 /\ out' = NoOut
  /\ UNCHANGED << nextId, evaluator, cb >>

\* validate: wapc_host.call("validate", ..) returns; the reply is parsed
\* and the response built (build_ok: from_policy_validation_response is Ok)
validate_return(t, reply, build_ok) ==
  /\ pc[t] = "guest"
  /\ call[t].op = "validate"
  /\ LET id == uid(call[t].request)
     IN  out' = Returned(t, [call[t] EXCEPT !.reply = reply,
                                            !.build_ok = (reply.kind = "parsed" => build_ok)],
           CASE reply.kind = "error" ->
                  reject_internal_server_error(id, reply.message[1])
             [] reply.kind = "garbage" ->
                  reject_internal_server_error(id,
                    "cannot deserialize policy validation response")
             [] OTHER ->
                  IF build_ok THEN from_policy_validation_response(id, reply)
                  ELSE reject_internal_server_error(id,
                         "cannot build validation response"))
  /\ call' = [call EXCEPT ![t] = NoCall]
  /\ pc' = [pc EXCEPT ![t] = "idle"]
  /\ UNCHANGED << POLICY_MAPPING, rwlock, nextId, evaluator, cb >>

(* -------------------------- validate_settings -------------------------- *)
\* variant: validate_settings registers self.policy, as validate does but
\* with no request uid
validate_settings_registers(t, h, ser_ok) ==
  /\ pc[t] = "idle"
  /\ evaluator[h].state = "live"
  /\ LET settings == evaluator[h].policy.settings
         c == Call("validate_settings", h, NoRequest, None)
     IN  IF settings # None /\ ~ser_ok
         THEN /\ out' = Returned(t, [c EXCEPT !.ser_ok = FALSE],
                   SettingsValidationResponse(FALSE,
                     Some("Cannot serialize validation params")))
              /\ UNCHANGED << pc, call >>
         ELSE /\ out' = NoOut
              /\ call' = [call EXCEPT ![t] =
                   [c EXCEPT !.invoked = TRUE,
                             !.payload = Some(settings_str(settings))]]
              /\ pc' = [pc EXCEPT ![t] = "guest"]
  /\ POLICY_MAPPING' = insert(POLICY_MAPPING, h, evaluator[h].policy)
  /\ UNCHANGED << rwlock, nextId, evaluator, cb >>

\* PolicyEvaluator::validate_settings up to wapc_host.call: the settings
\* are serialized (Ok or Err), "{}" standing for no settings
validate_settings(t, h, ser_ok) ==
  /\ pc[t] = "idle"
  /\ evaluator[h].state = "live"
  /\ LET settings == evaluator[h].policy.settings
         c == Call("validate_settings", h, NoRequest, None)
     IN  IF settings # None /\ ~ser_ok
         THEN /\ out' = Returned(t, [c EXCEPT !.ser_ok = FALSE],
                   SettingsValidationResponse(FALSE,
                     Some("Cannot serialize validation params")))
              /\ UNCHANGED << pc, call >>
         ELSE /\ out' = NoOut
              /\ call' = [call EXCEPT ![t] =
                   [c EXCEPT !.invoked = TRUE,
                             !.payload = Some(settings_str(settings))]]
              /\ pc' = [pc EXCEPT ![t] = "guest"]
  /\ UNCHANGED << POLICY_MAPPING, rwlock, nextId, evaluator, cb >>

\* validate_settings: wapc_host.call("validate_settings", ..) returns
validate_settings_return(t, reply) ==
  /\ pc[t] = "guest"
  /\ call[t].op = "validate_settings"
  /\ out' = Returned(t, [call[t] EXCEPT !.reply = reply],
       CASE reply.kind = "error" ->
              SettingsValidationResponse(FALSE,
                Some("Error invoking settings validation callback"))
         [] reply.kind = "garbage" ->
              SettingsValidationResponse(FALSE, Some("error: cannot convert response"))
         [] OTHER -> SettingsValidationResponse(reply.flag, reply.message))
  /\ call' = [call EXCEPT ![t] = NoCall]
  /\ pc' = [pc EXCEPT ![t] = "idle"]
  /\ UNCHANGED << POLICY_MAPPING, rwlock, nextId, evaluator, cb >>

(* -------------------------- protocol_version --------------------------- *)
\* PolicyEvaluator::protocol_version up to wapc_host.call
protocol_version(t, h) ==
  /\ pc[t] = "idle"
  /\ evaluator[h].state = "live"
  /\ pc' = [pc EXCEPT ![t] = "guest"]
  /\ call' = [call EXCEPT ![t] =
       [Call("protocol_version", h, NoRequest, None)
          EXCEPT !.invoked = TRUE, !.payload = Some("")]]
  /\ out' = NoOut
  /\ UNCHANGED << POLICY_MAPPING, rwlock, nextId, evaluator, cb >>

\* protocol_version: wapc_host.call("protocol_version", ..) returns
protocol_version_return(t, reply) ==
  /\ pc[t] = "guest"
  /\ call[t].op = "protocol_version"
  /\ out' = Returned(t, [call[t] EXCEPT !.reply = reply],
       CASE reply.kind = "error" ->
              ProtocolVersionErr("Cannot invoke 'protocol_version' waPC function")
         [] reply.kind = "garbage" ->
              ProtocolVersionErr("Cannot create ProtocolVersion object")
         [] OTHER -> ProtocolVersionOk(reply.message[1]))
  /\ call' = [call EXCEPT ![t] = NoCall]
  /\ pc' = [pc EXCEPT ![t] = "idle"]
  /\ UNCHANGED << POLICY_MAPPING, rwlock, nextId, evaluator, cb >>

(* ----------------------------- callbacks ------------------------------- *)
\* variant: a callback that fails takes the handle's context out of the
\* registry
guest_host_call_evicts(t, binding, namespace, operation, payload) ==
  /\ pc[t] = "guest"
  /\ LET policy_id == call[t].h
         c == Callback(binding, namespace, operation, payload, policy_id, CbPending)
         res == host_callback(POLICY_MAPPING, policy_id, binding, namespace,
                              operation, payload)
     IN  IF IsLogRoute(binding, namespace, operation)
         THEN /\ ReadFree
              /\ rwlock' = [rwlock EXCEPT !.readers = @ \cup {t}]
              /\ cb' = [cb EXCEPT ![t] = c]
              /\ pc' = [pc EXCEPT ![t] = "log"]
              /\ out' = NoOut
              /\ UNCHANGED << call, POLICY_MAPPING >>
         ELSE /\ out' = Serviced(t, call[t], [c EXCEPT !.res = res])
              /\ POLICY_MAPPING' =
                   IF res.kind = "err"
                   THEN [POLICY_MAPPING EXCEPT ![policy_id] = NoPolicy]
                   ELSE POLICY_MAPPING
              /\ UNCHANGED << rwlock, pc, cb, call >>
  /\ UNCHANGED << nextId, evaluator >>

\* the guest running on thread t calls the host: host_callback with the
\* id of the thread's sandbox instance.  The log route stops at
\* POLICY_MAPPING.read(); every other route returns at once
guest_host_call(t, binding, namespace, operation, payload) ==
  /\ pc[t] = "guest"
  /\ LET policy_id == call[t].h
         c == Callback(binding, namespace, operation, payload, policy_id, CbPending)
         res == host_callback(POLICY_MAPPING, policy_id, binding, namespace,
                              operation, payload)
     IN  IF IsLogRoute(binding, namespace, operation)
         THEN /\ ReadFree
              /\ rwlock' = [rwlock EXCEPT !.readers = @ \cup {t}]
              /\ cb' = [cb EXCEPT ![t] = c]
              /\ pc' = [pc EXCEPT ![t] = "log"]
              /\ out' = NoOut
              /\ UNCHANGED call
         ELSE /\ out' = Serviced(t, call[t], [c EXCEPT !.res = res])
              /\ UNCHANGED << rwlock, pc, cb, call >>
  /\ UNCHANGED << POLICY_MAPPING, nextId, evaluator >>

\* host_callback, log route, under the read lock: the context is looked up
\* (a missing one panics the thread), the payload goes to Policy::log, the
\* guard is dropped and Ok(Vec::new()) returned to the guest
host_callback_log(t) ==
  /\ pc[t] = "log"
  /\ LET c == cb[t]
         res == host_callback(POLICY_MAPPING, c.policy_id, c.binding,
                              c.namespace, c.operation, c.payload)
     IN  /\ out' = Serviced(t, call[t], [c EXCEPT !.res = res])
         /\ IF res.kind = "panic"
            THEN /\ pc' = [pc EXCEPT ![t] = "panicked"]
                 /\ call' = [call EXCEPT ![t] = NoCall]
            ELSE /\ pc' = [pc EXCEPT ![t] = "guest"]
                 /\ UNCHANGED call
  /\ cb' = [cb EXCEPT ![t] = NoCb]
  /\ rwlock' = [rwlock EXCEPT !.readers = @ \ {t}]
  /\ UNCHANGED << POLICY_MAPPING, nextId, evaluator >>

(* ------------------------------- Next ---------------------------------- *)
Next ==
  \/ \E t \in Threads, s \in SettingsValues : from_contents(t, s)
  \/ \E t \in Threads, host_ok \in BOOLEAN, policy_ok \in BOOLEAN :
       from_contents_internal(t, host_ok, policy_ok)
  \/ \E t \in Threads : from_contents_insert(t)
  \/ \E h \in Handles : drop(h)
  \/ \E t \in Threads, h \in Handles : \E r \in Requests(h) : validate(t, h, r)
  \/ \E t \in Threads, ser_ok \in BOOLEAN : validate_insert(t, ser_ok)
  \/ \E t \in Threads, reply \in ValidateReplies, build_ok \in BOOLEAN :
       validate_return(t, reply, build_ok)
  \/ \E t \in Threads, h \in Handles, ser_ok \in BOOLEAN : validate_settings(t, h, ser_ok)
  \/ \E t \in Threads, reply \in SettingsReplies : validate_settings_return(t, reply)
  \/ \E t \in Threads, h \in Handles : protocol_version(t, h)
  \/ \E t \in Threads, reply \in VersionReplies : protocol_version_return(t, reply)
  \/ \E t \in Threads, r \in Routes : \E p \in PayloadsOf(r, Payloads) :
       guest_host_call(t, r[1], r[2], r[3], p)
  \/ \E t \in Threads : host_callback_log(t)

Spec == Init /\ [][Next]_vars

(* ------------- callers that serialize validate per handle -------------- *)
\* validate, begun only when no validate runs on the same evaluator
serialized_validate(t, h, request) ==
  /\ NoValidateOn(h)
  /\ validate(t, h, request)

NextSerial ==
  \/ \E t \in Threads, s \in SettingsValues : from_contents(t, s)
  \/ \E t \in Threads, host_ok \in BOOLEAN, policy_ok \in BOOLEAN :
       from_contents_internal(t, host_ok, policy_ok)
  \/ \E t \in Threads : from_contents_insert(t)
  \/ \E h \in Handles : drop(h)
  \/ \E t \in Threads, h \in Handles : \E r \in Requests(h) :
       serialized_validate(t, h, r)
  \/ \E t \in Threads, ser_ok \in BOOLEAN : validate_insert(t, ser_ok)
  \/ \E t \in Threads, reply \in ValidateReplies, build_ok \in BOOLEAN :
       validate_return(t, reply, build_ok)
  \/ \E t \in Threads, h \in Handles, ser_ok \in BOOLEAN : validate_settings(t, h, ser_ok)
  \/ \E t \in Threads, reply \in SettingsReplies : validate_settings_return(t, reply)
  \/ \E t \in Threads, h \in Handles : protocol_version(t, h)
  \/ \E t \in Threads, reply \in VersionReplies : protocol_version_return(t, reply)
  \/ \E t \in Threads, r \in Routes : \E p \in PayloadsOf(r, Payloads) :
       guest_host_call(t, r[1], r[2], r[3], p)
  \/ \E t \in Threads : host_callback_log(t)

SpecSerial == Init /\ [][NextSerial]_vars

(* ------------------- the dispatcher on every route --------------------- *)
\* one thread's guest is running: inside WapcHost::new of the first
\* sandbox instance, or inside validate on the first evaluator
InitDispatch ==
  \E s \in SettingsValues, r \in Requests(1), registered \in BOOLEAN :
    LET policy == Policy_from_contents(1, [policy_id |-> 1], s)
    IN  /\ r.object
        /\ POLICY_MAPPING = [h \in Handles |->
              IF h = 1 /\ registered THEN with_request_uid(policy, uid(r))
              ELSE NoPolicy]
        /\ rwlock = [writer |-> NoThread, readers |-> {}]
        /\ nextId = 2
        /\ evaluator = [h \in Handles |->
              IF h = 1 /\ registered THEN [state |-> "live", policy |-> policy]
              ELSE [state |-> "none", policy |-> NoPolicy]]
        /\ pc = [t \in Threads |-> IF t = "t1" THEN "guest" ELSE "idle"]
        /\ call = [t \in Threads |->
              IF t # "t1" THEN NoCall
              ELSE IF registered
              THEN [Call("validate", 1, r, None) EXCEPT
                      !.invoked = TRUE,
                      !.payload = Some([request |-> r,
                                        settings |-> unwrap_or_default(s)])]
              ELSE [Call("new", 1, NoRequest, s) EXCEPT !.invoked = TRUE]]
        /\ cb = [t \in Threads |-> NoCb]
        /\ out = NoOut

NextDispatch ==
  \/ \E t \in Threads, r \in AllRoutes : \E p \in PayloadsOf(r, LogPayloads) :
       guest_host_call(t, r[1], r[2], r[3], p)
  \/ \E t \in Threads : host_callback_log(t)

SpecDispatch == InitDispatch /\ [][NextDispatch]_vars

(* ------------- a guest that never returns, fair scheduling ------------- *)
\* PolicyEvaluator::validate up to the call of POLICY_MAPPING.write(): the
\* uid is read, and the thread is about to wait for the write lock
validate_begin(t, h, request) ==
  /\ pc[t] = "idle"
  /\ evaluator[h].state = "live"
  /\ pc' = [pc EXCEPT ![t] = "write"]
  /\ call' = [call EXCEPT ![t] = Call("validate", h, request, None)]
  /\ out' = NoOut
  /\ UNCHANGED << POLICY_MAPPING, rwlock, nextId, evaluator, cb >>

\* validate: POLICY_MAPPING.write() returns the guard
validate_write(t) ==
  /\ pc[t] = "write"
  /\ WriteFree
  /\ rwlock' = [rwlock EXCEPT !.writer = t]
  /\ pc' = [pc EXCEPT ![t] = "insert"]
  /\ out' = NoOut
  /\ UNCHANGED << POLICY_MAPPING, nextId, evaluator, call, cb >>

\* the thread whose guest never returns, and the evaluator it calls; the
\* other threads call the other evaluators
Stuck == "t1"
HandlesOf(t) == IF t = Stuck THEN {1} ELSE Handles \ {1}

\* every evaluator has been constructed, with the same settings, and no
\* call is running
InitLive ==
  \E s \in SettingsValues :
    LET policy(h) == Policy_from_contents(h, [policy_id |-> h], s)
    IN  /\ POLICY_MAPPING = [h \in Handles |-> policy(h)]
        /\ rwlock = [writer |-> NoThread, readers |-> {}]
        /\ nextId = MaxHandles + 1
        /\ evaluator = [h \in Handles |-> [state |-> "live", policy |-> policy(h)]]
        /\ pc = [t \in Threads |-> "idle"]
        /\ call = [t \in Threads |-> NoCall]
        /\ cb = [t \in Threads |-> NoCb]
        /\ out = NoOut

\* the calls of every thread, the callbacks of every guest, and the
\* returns of the guests that terminate
NextLive ==
  \/ \E t \in Threads : \E h \in HandlesOf(t) : \E r \in Requests(h) :
       validate_begin(t, h, r)
  \/ \E t \in Threads : validate_write(t)
  \/ \E t \in Threads, ser_ok \in BOOLEAN : validate_insert(t, ser_ok)
  \/ \E t \in Threads : \E h \in HandlesOf(t) : \E ser_ok \in BOOLEAN :
       validate_settings(t, h, ser_ok)
  \/ \E t \in Threads : \E h \in HandlesOf(t) : protocol_version(t, h)
  \/ \E t \in Threads \ {Stuck}, reply \in ValidateReplies, build_ok \in BOOLEAN :
       validate_return(t, reply, build_ok)
  \/ \E t \in Threads \ {Stuck}, reply \in SettingsReplies :
       validate_settings_return(t, reply)
  \/ \E t \in Threads \ {Stuck}, reply \in VersionReplies :
       protocol_version_return(t, reply)
  \/ \E t \in Threads, r \in Routes : \E p \in PayloadsOf(r, Payloads) :
       guest_host_call(t, r[1], r[2], r[3], p)
  \/ \E t \in Threads : host_callback_log(t)

\* fair scheduling: a thread that can run host code does (the insert under
\* the write lock, the log route under the read lock); a thread that waits
\* for the write lock gets it if the lock is free again and again; and the
\* guests of the threads other than Stuck terminate
FairLive ==
  /\ \A t \in Threads : WF_vars(\E ser_ok \in BOOLEAN : validate_insert(t, ser_ok))
  /\ \A t \in Threads : WF_vars(host_callback_log(t))
  /\ \A t \in Threads \ {Stuck} : SF_vars(validate_write(t))
  /\ \A t \in Threads \ {Stuck} :
        SF_vars(\/ \E reply \in ValidateReplies, build_ok \in BOOLEAN :
                     validate_return(t, reply, build_ok)
                \/ \E reply \in SettingsReplies : validate_settings_return(t, reply)
                \/ \E reply \in VersionReplies : protocol_version_return(t, reply))

SpecLive == InitLive /\ [][NextLive]_vars /\ FairLive

TypeOK ==
  /\ nextId \in 1..(MaxHandles + 1)
  /\ rwlock.writer \in Threads \cup {NoThread}
  /\ rwlock.readers \subseteq Threads
  /\ \A t \in Threads : pc[t] \in {"idle", "write", "guest", "insert", "log", "panicked"}

(* ------------------------------ claims --------------------------------- *)
\* the guest of thread t is running (or is inside a callback)
InGuest(t) == pc[t] \in {"guest", "log"}

ValidateReturned == out.kind = "return" /\ out.call.op = "validate"
LogServiced ==
  /\ out.kind = "callback"
  /\ IsLogRoute(out.cb.binding, out.cb.namespace, out.cb.operation)

\* the correlation id of a request: its uid member when that is a string,
\* the empty string otherwise
CorrelationId(request) ==
  CASE request.uid.type = "string" -> request.uid.str
    [] request.uid.type = "number" -> ""
    [] request.uid.type = "absent" -> ""

\* C1: a validate call on a request without an `object` member returns a
\* rejection with status 400, and the guest's validate export is not
\* invoked in that call: no guest ever runs validate on such a request.
C1_MissingObjectIsBadRequest ==
  /\ (ValidateReturned /\ ~out.call.request.object) =>
        /\ out.result.kind = "validation"
        /\ ~out.result.allowed
        /\ out.result.code = 400
        /\ ~out.call.invoked
  /\ \A t \in Threads :
        (InGuest(t) /\ call[t].op = "validate") => call[t].request.object

C1_Witness ==
  /\ ValidateReturned
  /\ ~out.call.request.object
  /\ out.result.code = 400
  /\ ~out.call.invoked

\* C2: whatever validate returns, on every path, carries the correlation id
\* of the request it was given.
C2_ResponseCarriesCorrelationId ==
  ValidateReturned =>
    /\ out.result.kind = "validation"
    /\ out.result.uid = CorrelationId(out.call.request)

\* the verdict does not parse, and the request's uid is a string
C2_Witness ==
  /\ ValidateReturned
  /\ out.call.reply.kind = "garbage"
  /\ out.call.request.uid.type = "string"
  /\ out.result.uid = out.call.request.uid.str
  /\ out.result.code = 500

\* C3: the dispatcher routes by the table: (kubewarden, tracing, log) for a
\* registered handle is Ok with an empty payload, (kubernetes,
\* ingresses | namespaces | services, any operation) is Ok with the
\* provider's snapshot of that name, and every other triple is an Err.
C3_RoutingTable ==
  out.kind = "callback" =>
    LET c == out.cb IN
    IF IsLogRoute(c.binding, c.namespace, c.operation)
    THEN POLICY_MAPPING[c.policy_id] # NoPolicy =>
           (c.res.kind = "ok" /\ c.res.bytes = "")
    ELSE IF c.binding = "kubernetes"
            /\ c.namespace \in {"ingresses", "namespaces", "services"}
    THEN /\ c.res.kind = "ok"
         /\ c.namespace = "ingresses" => c.res.bytes = cluster_context.ingresses
         /\ c.namespace = "namespaces" => c.res.bytes = cluster_context.namespaces
         /\ c.namespace = "services" => c.res.bytes = cluster_context.services
    ELSE c.res.kind = "err"

\* (kubernetes, pods, get) was refused
C3_Witness ==
  /\ out.kind = "callback"
  /\ out.cb.binding = "kubernetes"
  /\ out.cb.namespace = "pods"
  /\ out.cb.operation = "get"
  /\ out.cb.res.kind = "err"

\* C4: a log callback for a registered handle is Ok with an empty payload
\* for the guest whether Policy::log took the payload or refused it, and a
\* validate call whose guest was just given a refused log returns what the
\* guest's reply decides: the guest's verdict when it parses and the
\* response can be built, an internal error otherwise.
C4_LogFailureIsContained ==
  /\ (LogServiced /\ POLICY_MAPPING[out.cb.policy_id] # NoPolicy) =>
        /\ out.cb.res.kind = "ok"
        /\ out.cb.res.bytes = ""
  /\ (ValidateReturned /\ out.after = "log_failed") =>
        IF out.call.reply.kind = "parsed" /\ out.call.build_ok
        THEN /\ out.result.allowed = out.call.reply.flag
             /\ out.result.message = out.call.reply.message
        ELSE /\ ~out.result.allowed
             /\ out.result.code = 500

\* right after a log with level "bogus" was refused, validate returned the
\* guest's accepting verdict
C4_Witness ==
  /\ ValidateReturned
  /\ out.after = "log_failed"
  /\ out.call.reply.kind = "parsed"
  /\ out.call.reply.flag
  /\ out.result.allowed

\* C5: every register is seen by the next lookup: the step in which a thread
\* inserts leaves under the handle exactly the context it registered (the
\* policy the construction returns; for validate the evaluator's policy
\* with the request's correlation id), whatever was there before.
C5_RegisterThenLookup ==
  [][\A t \in Threads :
       (pc[t] = "insert" /\ pc'[t] # "insert") =>
         LET h == call[t].h IN
         IF call[t].op = "new"
         THEN /\ out'.result = EvaluatorOk(h)
              /\ get(POLICY_MAPPING', h) = Some(evaluator'[h].policy)
         ELSE get(POLICY_MAPPING', h) =
                Some([evaluator[h].policy EXCEPT
                        !.request_uid = Some(CorrelationId(call[t].request))])
    ]_vars

\* a validate re-registered a handle over the context of the construction
C5_Witness ==
  \E h \in Handles :
    /\ evaluator[h].state = "live"
    /\ get(POLICY_MAPPING, h) # None
    /\ get(POLICY_MAPPING, h)[1].request_uid = Some(UidString(h, 1))
    /\ get(POLICY_MAPPING, h)[1] # evaluator[h].policy

\* the correlation ids of the requests given to the evaluator with handle h
IdsGivenTo(h) == {CorrelationId(r) : r \in Requests(h)}

\* C6: a log event emitted for a callback of the evaluator with handle h is
\* emitted under that evaluator's context and tagged with the correlation
\* id of a request given to that evaluator (or with none), never with one
\* given only to another evaluator.
C6_NoCrossHandleIds ==
  (LogServiced /\ out.cb.res.event.emitted) =>
    LET h == out.call.h
        e == out.cb.res.event
    IN  /\ e.policy_id = h
        /\ e.request_uid = None \/ e.request_uid[1] \in IdsGivenTo(h)

\* a log of one evaluator's validate, tagged with its request's uid, while
\* the other evaluator's validate runs
C6_Witness ==
  /\ LogServiced
  /\ out.cb.res.event.emitted
  /\ out.call.op = "validate"
  /\ out.cb.res.event.request_uid = Some(UidString(out.call.h, 1))
  /\ \E t \in Threads :
       /\ t # out.t
       /\ InGuest(t)
       /\ call[t].op = "validate"
       /\ call[t].h # out.call.h
       /\ call[t].request.uid.type = "string"

\* C7: with validate calls on one handle serialized, the registry holds the
\* request's correlation id under the handle for as long as the guest's
\* validate export runs, and every log event of that call is tagged with it.
C7_SerializedCallsReadOwnId ==
  /\ \A t \in Threads :
       (InGuest(t) /\ call[t].op = "validate") =>
         POLICY_MAPPING[call[t].h].request_uid =
           Some(CorrelationId(call[t].request))
  /\ (LogServiced /\ out.call.op = "validate" /\ out.cb.res.event.emitted) =>
       out.cb.res.event.request_uid = Some(CorrelationId(out.call.request))

C7_Witness ==
  /\ LogServiced
  /\ out.call.op = "validate"
  /\ out.cb.res.event.emitted
  /\ out.call.request.uid.type = "string"
  /\ out.cb.res.event.request_uid = Some(out.call.request.uid.str)

\* C8: no callback reaches the dispatcher with a handle the registry does
\* not hold, the callbacks of a sandbox instance that is being created
\* included.
C8_RegisteredBeforeCallback ==
  out.kind = "callback" => POLICY_MAPPING[out.cb.policy_id] # NoPolicy

\* C9: no step removes a handle from the registry; the handle of a dropped
\* evaluator stays registered.
C9_RegistryOnlyGrows ==
  [][\A h \in Handles :
       POLICY_MAPPING[h] # NoPolicy => POLICY_MAPPING'[h] # NoPolicy]_vars

C9_Witness ==
  \E h \in Handles :
    /\ evaluator[h].state = "dropped"
    /\ get(POLICY_MAPPING, h) # None

\* C10: validate_settings returns {valid: false, message: Some(text)} when
\* the settings do not serialize, the guest call fails or its reply does not
\* parse, and the guest's validity and message unchanged otherwise; the
\* guest is sent "{}" when the evaluator has no settings.
C10_ValidateSettings ==
  /\ (out.kind = "return" /\ out.call.op = "validate_settings") =>
       LET c == out.call
           r == out.result
       IN  /\ r.kind = "settings"
           /\ IF c.ser_ok /\ c.reply.kind = "parsed"
              THEN r.valid = c.reply.flag /\ r.message = c.reply.message
              ELSE ~r.valid /\ r.message # None
           /\ ~c.ser_ok => ~c.invoked
  /\ \A t \in Threads :
       (InGuest(t) /\ call[t].op = "validate_settings") =>
          /\ call[t].payload # None
          /\ evaluator[call[t].h].policy.settings = None =>
               call[t].payload = Some("{}")

\* with no settings the guest was sent "{}", answered {valid: true}, and
\* validate_settings returned {valid: true, message: None}
C10_Witness ==
  /\ out.kind = "return"
  /\ out.call.op = "validate_settings"
  /\ evaluator[out.call.h].policy.settings = None
  /\ out.call.payload = Some("{}")
  /\ out.call.reply = Reply("parsed", TRUE, None)
  /\ out.result.valid
  /\ out.result.message = None

\* C11: validate calls on one handle that interleave overwrite each other's
\* correlation id: a log event of a validate call is tagged with the id the
\* registry holds under the handle when the callback is serviced, which is
\* the id of the validate that inserted last on that handle, and that can
\* be the id of another call than the one that issued the callback.
C11_LogReadsLastWriter ==
  /\ (LogServiced /\ out.call.op = "validate" /\ out.cb.res.event.emitted) =>
        out.cb.res.event.request_uid = POLICY_MAPPING[out.call.h].request_uid
  /\ \A t \in Threads :
        (InGuest(t) /\ call[t].op = "validate") =>
          \E id \in IdsGivenTo(call[t].h) :
            POLICY_MAPPING[call[t].h].request_uid = Some(id)

\* a log callback of call A was tagged with the id of call B, which runs on
\* the same handle on the other thread, and not with A's own
C11_Witness ==
  /\ LogServiced
  /\ out.call.op = "validate"
  /\ out.cb.res.event.emitted
  /\ out.cb.res.event.request_uid # Some(CorrelationId(out.call.request))
  /\ \E t \in Threads :
        /\ t # out.t
        /\ InGuest(t)
        /\ call[t].op = "validate"
        /\ call[t].h = out.call.h
        /\ out.cb.res.event.request_uid = Some(CorrelationId(call[t].request))

\* the thread that holds the write lock, or a thread that holds a read
\* lock, is at the step that drops its guard and needs nothing else for it
HolderCanRelease ==
  /\ \A t \in Threads :
        rwlock.writer = t =>
          ENABLED (from_contents_insert(t) \/ \E ser_ok \in BOOLEAN : validate_insert(t, ser_ok))
  /\ \A t \in rwlock.readers : ENABLED host_callback_log(t)

\* C12: the write lock is held for the single insertion only, in construction
\* and in validate, and not while a guest runs; the dispatcher holds a read
\* lock only inside the log route, on a thread that holds no other lock; and
\* whoever holds the lock can always release it, so that the threads never
\* all wait on the lock.
C12_LockDiscipline ==
  /\ \A t \in Threads : rwlock.writer = t <=> pc[t] = "insert"
  /\ \A t \in Threads : t \in rwlock.readers <=> pc[t] = "log"
  /\ \A t \in Threads :
        pc[t] = "guest" => (rwlock.writer # t /\ t \notin rwlock.readers)
  /\ rwlock.writer # NoThread => rwlock.readers = {}
  /\ HolderCanRelease

\* log callbacks of a validate call and of another call are both inside
\* the registry's read lock
C12_Witness ==
  \E t \in Threads, u \in Threads :
    /\ t # u
    /\ call[t].op = "validate"
    /\ pc[t] = "log"
    /\ pc[u] = "log"
    /\ rwlock.readers = {t, u}
    /\ rwlock.writer = NoThread

\* C13: while the guest of one thread's call never returns, every call
\* that another thread makes on an evaluator with another handle (validate,
\* validate_settings, protocol_version), and whose guest terminates, returns
\* to its caller under fair scheduling.
C13_OtherHandleCompletes ==
  \A t \in Threads \ {Stuck} :
    (pc[t] # "idle") ~> (pc[t] = "idle" /\ out.kind = "return" /\ out.t = t)

\* a validate on another handle went through the guest and returned while
\* the guest of Stuck's validate is still running
C13_Witness ==
  /\ pc[Stuck] = "guest"
  /\ call[Stuck].op = "validate"
  /\ out.kind = "return"
  /\ out.t # Stuck
  /\ out.call.op = "validate"
  /\ out.call.h # call[Stuck].h
  /\ out.call.invoked
  /\ out.call.reply.kind = "parsed"

\* C14: validate writes the correlation id to the registry before it checks
\* its input: when it returns an early rejection (no `object` member, or
\* {request, settings} does not serialize) the registry context of the
\* handle holds the correlation id of the rejected request; the rejection
\* for a serialization failure is an internal error (500) that carries the
\* serialization error text.
C14_IdWrittenBeforeChecks ==
  (ValidateReturned /\ ~out.call.invoked) =>
    /\ POLICY_MAPPING[out.call.h].request_uid =
         Some(CorrelationId(out.call.request))
    /\ ~out.result.allowed
    /\ out.call.request.object =>
         /\ ~out.call.ser_ok
         /\ out.result.code = INTERNAL_SERVER_ERROR
         /\ out.result.message = Some("serde_json error")
         /\ out.result.uid = CorrelationId(out.call.request)

\* a request without `object` was rejected, and the registry holds the uid
\* of that request over the context of the construction
C14_Witness ==
  /\ ValidateReturned
  /\ ~out.call.invoked
  /\ ~out.call.request.object
  /\ out.call.request.uid.type = "string"
  /\ POLICY_MAPPING[out.call.h].request_uid = Some(out.call.request.uid.str)
  /\ POLICY_MAPPING[out.call.h] # evaluator[out.call.h].policy
  /\ out.result.code = BAD_REQUEST

\* C15: a callback never writes the registry, whether it is Ok or an Err
\* (unknown route) or a refused log payload; its failure is the result of
\* that callback alone: the call goes on, the same guest's next callback on
\* a known route is Ok, and validate returns what the guest's reply
\* decides.
C15_CallbackFailureIsIsolated ==
  [][/\ ((out'.kind = "callback") \/ (\E t \in Threads : pc'[t] = "log" /\ pc[t] # "log")) =>
          /\ POLICY_MAPPING' = POLICY_MAPPING
          /\ evaluator' = evaluator
     /\ (out'.kind = "callback" /\ Ended(out'.cb.res) # "none") =>
          /\ pc'[out'.t] = "guest"
          /\ call'[out'.t] = out'.call
     /\ (out.kind = "callback" /\ Ended(out.cb.res) # "none"
           /\ out'.kind = "callback" /\ out'.t = out.t
           /\ out'.cb.binding = "kubernetes" /\ out'.cb.namespace = "services") =>
          /\ out'.cb.res.kind = "ok"
          /\ out'.cb.res.bytes = cluster_context.services
     /\ (out'.kind = "return" /\ out'.call.op = "validate" /\ out'.after # "none") =>
          IF out'.call.reply.kind = "parsed" /\ out'.call.build_ok
          THEN /\ out'.result.allowed = out'.call.reply.flag
               /\ out'.result.message = out'.call.reply.message
          ELSE /\ ~out'.result.allowed
               /\ out'.result.code = INTERNAL_SERVER_ERROR
    ]_vars

\* right after (kubernetes, pods, get) was refused, validate returned the
\* guest's accepting verdict, and the registry holds the call's context
C15_Witness ==
  /\ ValidateReturned
  /\ out.after = "err"
  /\ out.call.reply.kind = "parsed"
  /\ out.call.reply.flag
  /\ out.result.allowed
  /\ out.call.request.uid.type = "string"
  /\ POLICY_MAPPING[out.call.h].request_uid = Some(out.call.request.uid.str)

\* C16: the registry entry under key h has handle field h and the settings
\* given to the construction of that evaluator: the construction registers
\* them with no correlation id, and from then on every step keeps the
\* entry's handle, settings and span; the insert of validate changes
\* nothing but the correlation id of its own handle's entry.
C16_EntryKeepsHandleAndSettings ==
  [][/\ \A h \in Handles :
          POLICY_MAPPING'[h] # NoPolicy =>
            /\ POLICY_MAPPING'[h].wapc_policy_id = h
            /\ IF POLICY_MAPPING[h] = NoPolicy
               THEN /\ POLICY_MAPPING'[h].request_uid = None
                    /\ \E t \in Threads :
                         /\ call[t].op = "new"
                         /\ call[t].h = h
                         /\ POLICY_MAPPING'[h].settings = call[t].settings
               ELSE /\ POLICY_MAPPING'[h].settings = POLICY_MAPPING[h].settings
                    /\ POLICY_MAPPING'[h].span = POLICY_MAPPING[h].span
     /\ \A t \in Threads :
          (pc[t] = "insert" /\ call[t].op = "validate" /\ pc'[t] # "insert") =>
            \A h \in Handles \ {call[t].h} : POLICY_MAPPING'[h] = POLICY_MAPPING[h]
    ]_vars

\* a validate has re-registered one evaluator's context, which keeps its
\* settings, next to another evaluator's context that no validate touched
C16_Witness ==
  \E h \in Handles, g \in Handles :
    /\ h # g
    /\ POLICY_MAPPING[h] # NoPolicy
    /\ POLICY_MAPPING[h].wapc_policy_id = h
    /\ POLICY_MAPPING[h].settings = Some(SomeMap)
    /\ POLICY_MAPPING[h].request_uid = Some(UidString(h, 1))
    /\ POLICY_MAPPING[g] # NoPolicy
    /\ POLICY_MAPPING[g].settings = None
    /\ POLICY_MAPPING[g].request_uid = None

\* the last step serviced a log callback for a handle the registry did not
\* hold (callbacks leave the registry as it is)
MissingContext ==
  /\ LogServiced
  /\ POLICY_MAPPING[out.cb.policy_id] = NoPolicy

\* C17: a (kubewarden, tracing, log) callback for a handle that the
\* registry does not hold panics: it gives the guest neither Ok nor Err.  The
\* panic is the calling thread's alone: the registry and the evaluators are
\* unchanged, the panicking thread holds no lock afterwards, and the other
\* threads are where they were.  No other callback panics.
C17_MissingContextPanics ==
  [][/\ (out'.kind = "callback") =>
          (out'.cb.res.kind = "panic" <=> MissingContext')
     /\ (out'.kind = "callback" /\ out'.cb.res.kind = "panic") =>
          /\ POLICY_MAPPING' = POLICY_MAPPING
          /\ evaluator' = evaluator
          /\ rwlock'.writer = rwlock.writer
          /\ rwlock'.readers = rwlock.readers \ {out'.t}
          /\ pc'[out'.t] = "panicked"
          /\ \A u \in Threads \ {out'.t} :
               pc'[u] = pc[u] /\ call'[u] = call[u] /\ cb'[u] = cb[u]
     /\ \A t \in Threads :
          pc'[t] = "panicked" => (rwlock'.writer # t /\ t \notin rwlock'.readers)
    ]_vars

\* after one thread panicked in the log route, another thread's validate on
\* a registered handle had a log callback serviced
C17_Witness ==
  /\ \E t \in Threads : pc[t] = "panicked"
  /\ LogServiced
  /\ pc[out.t] = "guest"
  /\ out.call.op = "validate"
  /\ out.cb.res.kind = "ok"
  /\ out.cb.res.event.emitted

\* thread t takes the step
Acts(t) ==
  \/ pc'[t] # pc[t]
  \/ call'[t] # call[t]
  \/ cb'[t] # cb[t]
  \/ (out'.kind # "none" /\ out'.t = t)

\* C18: construction is all-or-nothing.  Until its insert, no step of a
\* construction writes the registry, and its handle is neither registered
\* nor an evaluator; a construction that fails (the sandbox instance or the
\* Policy could not be made) returns no evaluator and leaves the registry
\* as it is; an evaluator is returned in the step that registers its handle.
C18_ConstructionAllOrNothing ==
  [][/\ \A t \in Threads :
          (Acts(t) /\ call[t].op = "new" /\ pc[t] # "insert") =>
            POLICY_MAPPING' = POLICY_MAPPING /\ evaluator' = evaluator
     /\ \A t \in Threads :
          call'[t].op = "new" =>
            /\ POLICY_MAPPING'[call'[t].h] = NoPolicy
            /\ evaluator'[call'[t].h].state = "none"
     /\ (out'.kind = "return" /\ out'.call.op = "new") =>
          IF out'.result.valid
          THEN /\ out'.result = EvaluatorOk(out'.call.h)
               /\ POLICY_MAPPING[out'.call.h] = NoPolicy
               /\ POLICY_MAPPING'[out'.call.h] # NoPolicy
               /\ evaluator'[out'.call.h] =
                    [state |-> "live", policy |-> POLICY_MAPPING'[out'.call.h]]
          ELSE /\ out'.result = EvaluatorErr
               /\ POLICY_MAPPING' = POLICY_MAPPING
               /\ evaluator' = evaluator
               /\ evaluator'[out'.call.h].state = "none"
     /\ \A h \in Handles :
          evaluator'[h].state # "none" => POLICY_MAPPING'[h] # NoPolicy
    ]_vars

\* the second construction failed after the first one registered its handle
C18_Witness ==
  /\ out.kind = "return"
  /\ out.call.op = "new"
  /\ out.result = EvaluatorErr
  /\ out.call.h = 2
  /\ POLICY_MAPPING[1] # NoPolicy
  /\ POLICY_MAPPING[2] = NoPolicy
  /\ evaluator[2].state = "none"

SettingsOrVersion == {"validate_settings", "protocol_version"}

\* C19: no step of validate_settings or protocol_version writes the registry
\* (the callbacks of their guests included), so a log event of such a call
\* is tagged with the correlation id the handle's context holds when the
\* callback is serviced; and that id changes only when a validate on the
\* handle inserts its own, so it is the id of the last validate there.
C19_SettingsAndVersionLeaveRegistry ==
  [][/\ \A t \in Threads :
          (/\ Acts(t)
           /\ \/ call[t].op \in SettingsOrVersion
              \/ call'[t].op \in SettingsOrVersion
              \/ (out'.kind = "return" /\ out'.call.op \in SettingsOrVersion)) =>
            POLICY_MAPPING' = POLICY_MAPPING
     /\ (/\ out'.kind = "callback"
         /\ IsLogRoute(out'.cb.binding, out'.cb.namespace, out'.cb.operation)
         /\ out'.call.op \in SettingsOrVersion
         /\ out'.cb.res.event.emitted) =>
          out'.cb.res.event.request_uid = POLICY_MAPPING[out'.call.h].request_uid
     /\ \A h \in Handles :
          POLICY_MAPPING[h] # NoPolicy =>
            \/ POLICY_MAPPING'[h].request_uid = POLICY_MAPPING[h].request_uid
            \/ \E t \in Threads :
                 /\ pc[t] = "insert"
                 /\ call[t].op = "validate"
                 /\ call[t].h = h
                 /\ POLICY_MAPPING'[h].request_uid =
                      Some(CorrelationId(call[t].request))
    ]_vars

\* a log of validate_settings is tagged with the uid of a validate that
\* has returned; no validate runs on the handle
C19_Witness ==
  /\ LogServiced
  /\ out.call.op = "validate_settings"
  /\ out.cb.res.event.emitted
  /\ out.cb.res.event.request_uid = Some(UidString(out.call.h, 1))
  /\ NoValidateOn(out.call.h)

=============================================================================
